---- MODULE Spec2Model ----
(***************************************************************************)
(* Duplicate detection and folder merging of the contracts archive:       *)
(*   deduplicate_contracts.py   deduplicate_folder (exact MD5 grouping)    *)
(*   merge_customer_folders.py  fuzzy_group, merge_directories, main       *)
(*   delete_files_with_keywords.py  main (confirmation gate)               *)
(*   duplicate_scanner.py       normalize_filename, content check          *)
(* Spec runs the three scripts; SpecNorm, SpecFuzzy, SpecMergeDirs and     *)
(* SpecCheck run one function on any input; SpecDedupLive adds fairness.   *)
(* Characters are one-character strings, names are sequences of them.      *)
(***************************************************************************)
EXTENDS Integers, Sequences, FiniteSets, TLC

VARIABLES
    script,         \* which script this behaviour runs
    pc,             \* position in the running script
    \* ---- deduplicate_contracts.py
    files,          \* directory entries of the scanned folder: index -> attributes
    present,        \* entries currently on disk
    scanIdx,        \* next entry of folder_path.iterdir()
    file_hashes,    \* dict hash -> [(file, mod_time)], in insertion order
    grpIdx,         \* position in file_hashes.items()
    keep_file,      \* keep_file of the group being resolved (0: none)
    to_delete,      \* to_delete of the group being resolved
    delIdx,         \* position in to_delete
    total_removed,
    total_space,
    report,         \* what the final summary line prints (<<>>: not printed)
    attempted,      \* history: files os.remove was attempted on
    failed,         \* history: files whose removal raised
    kept,           \* history: every keep_file chosen so far
    \* ---- merge_customer_folders.py
    existing,       \* customer folders that exist under the root
    dirs,           \* folder -> its entries, each [name, origin, broken]
    customers,      \* the names given to fuzzy_group: the listing of the root
    threshold_arg,  \* the threshold given to fuzzy_group
    nameIdx,        \* position of fuzzy_group in names
    groups,         \* groups built by fuzzy_group
    shown,          \* the merge suggestions printed so far
    confirm,        \* the normalised answer to the prompt
    mgIdx,          \* position of merge_directories in groups
    group_sorted,
    folderIdx,      \* position in group_sorted
    items,          \* os.listdir(folder_path) still to process
    run,            \* number of the current run of the script
    mutations,      \* history: moves and folder removals of this run
    conflicts,      \* history: skipped children of this run
    dirs0,          \* history: dirs when this run listed the root
    existing0,      \* history: existing when this run listed the root
    cleanStart,     \* history: this run's plan had no name collision
    prevMerged,     \* history: the previous run was a re-run that left every cluster merged
    \* ---- delete_files_with_keywords.py
    args,           \* the command line: [yes, dry_run]
    tree,           \* names of the files under the directory
    tree0,          \* history: tree when the script started
    keywords,       \* the keywords read from the CSV file
    files_to_delete,
    listed,         \* the files to delete have been printed
    answer,         \* the answer to the prompt, as typed
    unlinkIdx,      \* position in files_to_delete
    success_count,
    fail_count,
    \* ---- duplicate_scanner.py
    filename,       \* the name given to normalize_filename
    normalized,     \* normalize_filename(filename)
    renormalized,   \* normalize_filename(normalized)
    group_files,    \* the files of one group of scan_data_files_directory
    hashes,         \* the hashes list of the content check
    verdict         \* what the content check printed ("": nothing yet)

dedupVars == <<files, present, scanIdx, file_hashes, grpIdx, keep_file, to_delete,
               delIdx, total_removed, total_space, report, attempted, failed, kept>>

mergeVars == <<existing, dirs, customers, threshold_arg, nameIdx, groups, shown, confirm, mgIdx,
               group_sorted, folderIdx, items, run, mutations, conflicts, dirs0,
               existing0, cleanStart, prevMerged>>

kwVars == <<args, tree, tree0, keywords, files_to_delete, listed, answer, unlinkIdx,
            success_count, fail_count>>

normVars == <<filename, normalized, renormalized, group_files, hashes, verdict>>

vars == <<script, pc, dedupVars, mergeVars, kwVars, normVars>>

----------------------------------------------------------------------------
(* Bounds *)
NumFiles == 4
MaxTime == 2
MaxRuns == 3
MaxTokens == 4
MaxNames == 3

(* Program constants *)
ChunkSize == 4096
DefaultThreshold == 80

None == -1

Min(a, b) == IF a < b THEN a ELSE b

----------------------------------------------------------------------------
(* The state of a script that is not the one running *)

DedupIdle ==
    /\ files = <<>>
    /\ present = {}
    /\ scanIdx = 1
    /\ file_hashes = <<>>
    /\ grpIdx = 1
    /\ keep_file = 0
    /\ to_delete = <<>>
    /\ delIdx = 1
    /\ total_removed = 0
    /\ total_space = 0
    /\ report = <<>>
    /\ attempted = {}
    /\ failed = {}
    /\ kept = {}

KwIdle ==
    /\ args = [yes |-> FALSE, dry_run |-> FALSE]
    /\ tree = {}
    /\ tree0 = {}
    /\ keywords = <<>>
    /\ files_to_delete = <<>>
    /\ listed = FALSE
    /\ answer = <<>>
    /\ unlinkIdx = 1
    /\ success_count = 0
    /\ fail_count = 0

NormIdle ==
    /\ filename = <<>>
    /\ normalized = <<>>
    /\ renormalized = <<>>
    /\ group_files = <<>>
    /\ hashes = <<>>
    /\ verdict = ""

\* the loops of fuzzy_group, main and merge_directories have not started
MergeLoopIdle ==
    /\ nameIdx = 1
    /\ shown = [displayed |-> FALSE, plan |-> {}]
    /\ confirm = <<>>
    /\ mgIdx = 1
    /\ group_sorted = <<>>
    /\ folderIdx = 1
    /\ items = {}
    /\ run = 1
    /\ mutations = 0
    /\ conflicts = {}
    /\ cleanStart = FALSE
    /\ prevMerged = FALSE

MergeIdle ==
    /\ existing = {}
    /\ dirs = <<>>
    /\ customers = <<>>
    /\ threshold_arg = DefaultThreshold
    /\ groups = <<>>
    /\ dirs0 = <<>>
    /\ existing0 = {}
    /\ MergeLoopIdle

----------------------------------------------------------------------------
(* deduplicate_contracts.py *)

FileIds == 1..NumFiles
\* byte contents, of two sizes; they start with the same byte
Contents == {<<65>>, <<65, 66>>}
StartsWithDot(name) == Len(name) > 0 /\ name[1] = "."

\* f.read(4096) until b"": the chunks of a content
RECURSIVE ReadChunks(_)
ReadChunks(data) ==
    IF data = <<>> THEN <<>>
    ELSE LET n == Min(ChunkSize, Len(data))
         IN  <<SubSeq(data, 1, n)>> \o ReadChunks(SubSeq(data, n + 1, Len(data)))

\* hash_md5.update(chunk): the digest state absorbs the bytes in order.  The
\* digest is modelled collision-free on the bounded contents.
RECURSIVE Md5Update(_, _)
Md5Update(h, chunk) ==
    IF chunk = <<>> THEN h
    ELSE Md5Update(h * 256 + Head(chunk), Tail(chunk))

RECURSIVE Md5Chunks(_, _)
Md5Chunks(h, chunks) ==
    IF chunks = <<>> THEN h
    ELSE Md5Chunks(Md5Update(h, Head(chunks)), Tail(chunks))

\* faulty variant: only the first byte of the file is hashed
Md5FirstByte(data) == Md5Chunks(1, ReadChunks(SubSeq(data, 1, 1)))

Md5(data) == Md5Chunks(1, ReadChunks(data))

\* faulty variant: a read error yields the digest of the bytes read so far
HashOfNothingRead(f) ==
    IF files[f].readable THEN Md5(files[f].content) ELSE Md5(<<>>)

\* lines 24-34: the digest of the content, None when reading raises
calculate_file_hash(f) ==
    IF files[f].readable THEN Md5(files[f].content) ELSE None

\* faulty variant: every hash is looked up as the first key of the dict
HashPosFirst(fh, h) == IF fh = <<>> THEN 0 ELSE 1

\* file_hashes.setdefault(file_hash, []).append(entry)
HashPos(fh, h) ==
    IF \E i \in 1..Len(fh) : fh[i].hash = h
    THEN CHOOSE i \in 1..Len(fh) : fh[i].hash = h
    ELSE 0

\* faulty variant: every file starts a list of its own
SetDefaultAlwaysNew(fh, h, entry) == Append(fh, [hash |-> h, files |-> <<entry>>])

SetDefaultAppend(fh, h, entry) ==
    IF HashPos(fh, h) = 0
    THEN Append(fh, [hash |-> h, files |-> <<entry>>])
    ELSE [fh EXCEPT ![HashPos(fh, h)].files = Append(@, entry)]

\* files.sort(key=lambda x: x[1], reverse=True): stable, newest first
RECURSIVE InsertDesc(_, _)
InsertDesc(sorted, e) ==
    IF sorted = <<>> THEN <<e>>
    ELSE IF Head(sorted)[2] >= e[2]
         THEN <<Head(sorted)>> \o InsertDesc(Tail(sorted), e)
         ELSE <<e>> \o sorted

\* faulty variant: the group is left in scan order
SortDescUnsorted(s) == s

RECURSIVE SortDesc(_)
SortDesc(s) ==
    IF s = <<>> THEN <<>>
    ELSE InsertDesc(SortDesc(SubSeq(s, 1, Len(s) - 1)), s[Len(s)])

KeepFile(sortedFiles) == sortedFiles[1][1]

ToDelete(sortedFiles) == [i \in 1..(Len(sortedFiles) - 1) |-> sortedFiles[i + 1][1]]

IsActionable(members) == Len(members) > 1

\* faulty variant: the scan loop stops after two entries
ScanCompleteEarly == scanIdx > 2

\* the iterdir loop has visited every entry
ScanComplete == scanIdx > NumFiles

size_names == <<"B", "KB", "MB", "GB">>

RECURSIVE Pow1024(_)
Pow1024(i) == IF i = 0 THEN 1 ELSE 1024 * Pow1024(i - 1)

\* the number of divisions by 1024.0 the while loop of lines 42-44 makes
RECURSIVE UnitIndex(_, _)
UnitIndex(size_bytes, i) ==
    IF size_bytes >= Pow1024(i + 1) /\ i < Len(size_names) - 1
    THEN UnitIndex(size_bytes, i + 1)
    ELSE i

\* the tenths "{x:.1f}" prints for x = num / den: the quotient rounded to the
\* nearest tenth, a tie to the even one
RoundTenths(num, den) ==
    LET q == (10 * num) \div den
        r == (10 * num) % den
    IN  IF 2 * r > den \/ (2 * r = den /\ q % 2 = 1) THEN q + 1 ELSE q

\* format_size, lines 37-46: the digits before and after the point and the unit
format_size(size_bytes) ==
    IF size_bytes = 0 THEN [whole |-> 0, tenth |-> None, unit |-> "B"]
    ELSE LET i == UnitIndex(size_bytes, 0)
             t == RoundTenths(size_bytes, Pow1024(i))
         IN  [whole |-> t \div 10, tenth |-> t % 10, unit |-> size_names[i + 1]]

\* the kinds of directory entry: a regular file (readable or not), a hidden
\* file or a sub-directory; attributes that the scan never looks at are fixed
FileShapes ==
    [kind : {"file"}, name : {<<"f">>}, readable : {TRUE},
     content : Contents, mtime : 1..MaxTime]
    \cup [kind : {"file"}, name : {<<"f">>}, readable : {FALSE},
          content : {<<65>>}, mtime : {1}]
    \cup [kind : {"file"}, name : {<<".", "f">>}, readable : {TRUE},
          content : {<<65>>}, mtime : {1}]
    \cup [kind : {"dir"}, name : {<<"f">>}, readable : {TRUE},
          content : {<<>>}, mtime : {1}]

\* one directory entry: its name ends with its index, so no two entries share
\* a name
FileAttrs(f) == {[s EXCEPT !.name = Append(@, f)] : s \in FileShapes}

InitDedup ==
    /\ script = "dedup"
    /\ pc = "start"
    /\ \E shape \in [FileIds -> FileShapes] :
          files = [f \in FileIds |-> [shape[f] EXCEPT !.name = Append(@, f)]]
    /\ \A f \in FileIds : files[f] \in FileAttrs(f)
    /\ present \in {FileIds, {}}
    /\ present = {} => \A f \in FileIds : files[f].kind = "dir"
    /\ scanIdx = 1
    /\ file_hashes = <<>>
    /\ grpIdx = 1
    /\ keep_file = 0
    /\ to_delete = <<>>
    /\ delIdx = 1
    /\ total_removed = 0
    /\ total_space = 0
    /\ report = <<>>
    /\ attempted = {}
    /\ failed = {}
    /\ kept = {}
    /\ MergeIdle
    /\ KwIdle
    /\ NormIdle

\* lines 50-56: the folder is missing (nothing is on disk) or the scan starts
DedupStart ==
    /\ script = "dedup" /\ pc = "start"
    /\ pc' = IF present = {} THEN "done" ELSE "scan"
    /\ UNCHANGED <<script, dedupVars, mergeVars, kwVars, normVars>>

\* lines 59-66: one iteration of the scan loop
ScanFile ==
    /\ script = "dedup" /\ pc = "scan" /\ ~ScanComplete
    /\ LET f == scanIdx
       IN  IF files[f].kind = "file" /\ ~StartsWithDot(files[f].name)
           THEN LET file_hash == calculate_file_hash(f)
                IN  IF file_hash = None
                    THEN UNCHANGED file_hashes
                    ELSE file_hashes' =
                            SetDefaultAppend(file_hashes, file_hash, <<f, files[f].mtime>>)
           ELSE UNCHANGED file_hashes
    /\ scanIdx' = scanIdx + 1
    /\ UNCHANGED <<mergeVars, kwVars, normVars>>
    /\ UNCHANGED <<script, pc, files, present, grpIdx, keep_file, to_delete, delIdx,
                   total_removed, total_space, report, attempted, failed, kept>>

\* lines 68-69: the scan loop is over
ScanDone ==
    /\ script = "dedup" /\ pc = "scan" /\ ScanComplete
    /\ pc' = "groups"
    /\ total_removed' = 0
    /\ total_space' = 0
    /\ UNCHANGED <<mergeVars, kwVars, normVars>>
    /\ UNCHANGED <<script, files, present, scanIdx, file_hashes, grpIdx, keep_file,
                   to_delete, delIdx, report, attempted, failed, kept>>

\* lines 72-78: the next hash group
NextGroup ==
    /\ script = "dedup" /\ pc = "groups" /\ grpIdx <= Len(file_hashes)
    /\ IF IsActionable(file_hashes[grpIdx].files)
       THEN LET sorted == SortDesc(file_hashes[grpIdx].files)
            IN  /\ file_hashes' = [file_hashes EXCEPT ![grpIdx].files = sorted]
                /\ keep_file' = KeepFile(sorted)
                /\ to_delete' = ToDelete(sorted)
                /\ kept' = kept \cup {KeepFile(sorted)}
                /\ delIdx' = 1
                /\ pc' = "delete"
                /\ UNCHANGED grpIdx
       ELSE /\ grpIdx' = grpIdx + 1
            /\ UNCHANGED <<file_hashes, keep_file, to_delete, kept, delIdx, pc>>
    /\ UNCHANGED <<mergeVars, kwVars, normVars>>
    /\ UNCHANGED <<script, files, present, scanIdx, total_removed, total_space, report,
                   attempted, failed>>

\* lines 80-85: stat and os.remove succeed
DeleteOk ==
    /\ script = "dedup" /\ pc = "delete" /\ delIdx <= Len(to_delete)
    /\ LET file == to_delete[delIdx]
           size == Len(files[file].content)
       IN  /\ present' = present \ {file}
           /\ total_removed' = total_removed + 1
           /\ total_space' = total_space + size
           /\ attempted' = attempted \cup {file}
    /\ delIdx' = delIdx + 1
    /\ UNCHANGED <<mergeVars, kwVars, normVars>>
    /\ UNCHANGED <<script, pc, files, scanIdx, file_hashes, grpIdx, keep_file,
                   to_delete, report, failed, kept>>

\* faulty variant: an exception leaves the loop over to_delete
AfterExceptBreak(idx, plan) == Len(plan) + 1

\* lines 86-87: the except clause ends the iteration; the for loop of line 79
\* goes on with the next file
AfterExcept(idx, plan) == idx + 1

\* lines 86-87: stat or os.remove raises; the error is printed
DeleteFail ==
    /\ script = "dedup" /\ pc = "delete" /\ delIdx <= Len(to_delete)
    /\ attempted' = attempted \cup {to_delete[delIdx]}
    /\ failed' = failed \cup {to_delete[delIdx]}
    /\ delIdx' = AfterExcept(delIdx, to_delete)
    /\ UNCHANGED <<mergeVars, kwVars, normVars>>
    /\ UNCHANGED <<script, pc, files, present, scanIdx, file_hashes, grpIdx, keep_file,
                   to_delete, total_removed, total_space, report, kept>>

\* line 79: to_delete is exhausted, back to the loop over the groups
GroupDone ==
    /\ script = "dedup" /\ pc = "delete" /\ delIdx > Len(to_delete)
    /\ grpIdx' = grpIdx + 1
    /\ pc' = "groups"
    /\ UNCHANGED <<mergeVars, kwVars, normVars>>
    /\ UNCHANGED <<script, files, present, scanIdx, file_hashes, keep_file, to_delete,
                   delIdx, total_removed, total_space, report, attempted, failed, kept>>

\* line 89: the final summary prints total_removed and the formatted
\* total_space
DedupFinish ==
    /\ script = "dedup" /\ pc = "groups" /\ grpIdx > Len(file_hashes)
    /\ report' = [removed |-> total_removed, freed |-> format_size(total_space)]
    /\ pc' = "done"
    /\ UNCHANGED <<mergeVars, kwVars, normVars>>
    /\ UNCHANGED <<script, files, present, scanIdx, file_hashes, grpIdx, keep_file,
                   to_delete, delIdx, total_removed, total_space, attempted, failed, kept>>

NextDedup ==
    \/ DedupStart
    \/ ScanFile
    \/ ScanDone
    \/ NextGroup
    \/ DeleteOk
    \/ DeleteFail
    \/ GroupDone
    \/ DedupFinish

----------------------------------------------------------------------------
(* Characters and strings *)

\* the characters in use, in code-point order
Alphabet == <<" ", "(", ")", ".", "1", "2", "C", "E", "O", "P", "S", "Y",
              "a", "b", "c", "d", "e", "f", "n", "o", "p", "s", "x", "y">>

Ord(c) == CHOOSE i \in 1..Len(Alphabet) : Alphabet[i] = c

\* str.lower() on one character
LowerChar(c) ==
    CASE c = "C" -> "c"
      [] c = "E" -> "e"
      [] c = "O" -> "o"
      [] c = "P" -> "p"
      [] c = "S" -> "s"
      [] c = "Y" -> "y"
      [] OTHER -> c

Lower(s) == [i \in 1..Len(s) |-> LowerChar(s[i])]

IsSpace(c) == c = " "

RECURSIVE LStrip(_)
LStrip(s) == IF s # <<>> /\ IsSpace(Head(s)) THEN LStrip(Tail(s)) ELSE s

RECURSIVE RStrip(_)
RStrip(s) ==
    IF s # <<>> /\ IsSpace(s[Len(s)]) THEN RStrip(SubSeq(s, 1, Len(s) - 1)) ELSE s

\* str.strip()
Strip(s) == RStrip(LStrip(s))

\* s < t for Python strings: lexicographic by code point
RECURSIVE StrLess(_, _)
StrLess(s, t) ==
    IF t = <<>> THEN FALSE
    ELSE IF s = <<>> THEN TRUE
    ELSE IF Head(s) # Head(t) THEN Ord(Head(s)) < Ord(Head(t))
    ELSE StrLess(Tail(s), Tail(t))

RECURSIVE InsertSorted(_, _)
InsertSorted(sorted, e) ==
    IF sorted = <<>> THEN <<e>>
    ELSE IF StrLess(e, Head(sorted)) THEN <<e>> \o sorted
    ELSE <<Head(sorted)>> \o InsertSorted(Tail(sorted), e)

\* faulty variant: the group is left in insertion order
SortedUnsorted(s) == s

\* sorted(group)
RECURSIVE Sorted(_)
Sorted(s) ==
    IF s = <<>> THEN <<>>
    ELSE InsertSorted(Sorted(SubSeq(s, 1, Len(s) - 1)), s[Len(s)])

\* the orders in which a listing can return the members of S
Perms(S) ==
    {p \in [1..Cardinality(S) -> S] : \A i, j \in 1..Cardinality(S) : i # j => p[i] # p[j]}

----------------------------------------------------------------------------
(* merge_customer_folders.py *)

\* length of a longest common subsequence
RECURSIVE Lcs(_, _)
Lcs(a, b) ==
    IF a = <<>> \/ b = <<>> THEN 0
    ELSE IF Head(a) = Head(b) THEN 1 + Lcs(Tail(a), Tail(b))
    ELSE LET l == Lcs(Tail(a), b)
             r == Lcs(a, Tail(b))
         IN  IF l >= r THEN l ELSE r

\* faulty variant: the score is taken relative to the shorter string
RatioOfShorter(a, b, threshold) ==
    IF Len(a) + Len(b) = 0 THEN 100 >= threshold
    ELSE 100 * Lcs(a, b) >= threshold * Min(Len(a), Len(b))

\* faulty variant: the score has to exceed the threshold
RatioAbove(a, b, threshold) ==
    IF Len(a) + Len(b) = 0 THEN 100 > threshold
    ELSE 200 * Lcs(a, b) > threshold * (Len(a) + Len(b))

\* fuzz.ratio(a, b) >= threshold, where the ratio is the normalised Indel
\* similarity 100 * 2 * lcs / (len(a) + len(b)), and 100 for two empty strings
RatioAtLeast(a, b, threshold) ==
    IF Len(a) + Len(b) = 0 THEN 100 >= threshold
    ELSE 200 * Lcs(a, b) >= threshold * (Len(a) + Len(b))

\* faulty variant: name is compared with every member of a group
FirstMatchAnyMember(gs, name, threshold) ==
    IF \E i \in 1..Len(gs) : \E k \in 1..Len(gs[i]) : RatioAtLeast(name, gs[i][k], threshold)
    THEN CHOOSE i \in 1..Len(gs) :
            /\ \E k \in 1..Len(gs[i]) : RatioAtLeast(name, gs[i][k], threshold)
            /\ \A j \in 1..(i - 1) :
                  \A k \in 1..Len(gs[j]) : ~RatioAtLeast(name, gs[j][k], threshold)
    ELSE 0

\* the first group whose first member is similar enough to name (0: none)
FirstMatch(gs, name, threshold) ==
    IF \E i \in 1..Len(gs) : RatioAtLeast(name, gs[i][1], threshold)
    THEN CHOOSE i \in 1..Len(gs) :
            /\ RatioAtLeast(name, gs[i][1], threshold)
            /\ \A j \in 1..(i - 1) : ~RatioAtLeast(name, gs[j][1], threshold)
    ELSE 0

\* faulty variant: without the break, name joins every group whose first
\* member is similar enough
FuzzyAddNoBreak(gs, name, threshold) ==
    IF FirstMatch(gs, name, threshold) = 0
    THEN Append(gs, <<name>>)
    ELSE [i \in 1..Len(gs) |->
            IF RatioAtLeast(name, gs[i][1], threshold) THEN Append(gs[i], name) ELSE gs[i]]

\* one iteration of the loop over names in fuzzy_group
FuzzyAdd(gs, name, threshold) ==
    IF FirstMatch(gs, name, threshold) = 0
    THEN Append(gs, <<name>>)
    ELSE [gs EXCEPT ![FirstMatch(gs, name, threshold)] = Append(@, name)]

RECURSIVE FuzzyFrom(_, _, _)
FuzzyFrom(gs, names, threshold) ==
    IF names = <<>> THEN gs
    ELSE FuzzyFrom(FuzzyAdd(gs, Head(names), threshold), Tail(names), threshold)

fuzzy_group(names, threshold) == FuzzyFrom(<<>>, names, threshold)

\* three similar customer names: the second is similar to the first and to
\* the third, the first and the third are not similar to each other
CustomerNames == {<<"b", "c", "d", "e">>, <<"a", "b", "c", "d", "e">>, <<"a", "b", "c", "d">>}
ItemNames == {"x", "y"}

\* what the prompt can be answered
Answers == {<<"y">>, <<"Y">>, <<" ", "y">>, <<"y", "e", "s">>, <<"n">>, <<>>}

EntryNames(d) == {e.name : e \in d}

\* os.path.exists(dst) for dst = rep_path/item: it follows symbolic links, so
\* it is False for a broken one
DstExists(d, rep, item) == \E e \in d[rep] : e.name = item /\ ~e.broken

\* faulty variant: the folder is removed with what it still holds
CanRmdirAlways(d, folder) == TRUE

\* os.rmdir succeeds on an empty folder only
CanRmdir(d, folder) == d[folder] = {}

\* the groups merge_directories acts on
MergeActionable(group) == Len(group) > 1

\* a plan has a collision when a child of a source folder has the name of an
\* entry of the representative or of a child of another source folder
NoCollision(gs, d, ex) ==
    \A i \in 1..Len(gs) :
        MergeActionable(gs[i]) =>
            \A k \in 2..Len(Sorted(gs[i])) :
                LET rep == Sorted(gs[i])[1]
                    src == Sorted(gs[i])[k]
                IN  /\ EntryNames(d[src]) \cap EntryNames(d[rep]) = {}
                    /\ \A m \in 2..Len(Sorted(gs[i])) :
                          m # k => EntryNames(d[src]) \cap EntryNames(d[Sorted(gs[i])[m]]) = {}

\* every source folder of every actionable group is gone
FullyMerged(gs, ex) ==
    \A i \in 1..Len(gs) :
        MergeActionable(gs[i]) =>
            \A k \in 2..Len(Sorted(gs[i])) : Sorted(gs[i])[k] \notin ex

\* what a folder can hold: entries of distinct names, each a regular entry or,
\* where links allows it, a broken symbolic link
EntryShapes(names, links) ==
    {S \in SUBSET [name : names, broken : links] :
        \A e1, e2 \in S : e1.name = e2.name => e1 = e2}

\* the entries of folder c; origin tells entries of the same name apart
FolderOf(shape, c) ==
    {[name |-> e.name, origin |-> c, broken |-> e.broken] : e \in shape}

InitMerge ==
    /\ script = "merge"
    /\ pc = "list"
    /\ existing \in SUBSET CustomerNames
    /\ \E shape \in [CustomerNames -> EntryShapes(ItemNames, {FALSE})] :
          dirs = [c \in CustomerNames |->
                     IF c \in existing THEN FolderOf(shape[c], c) ELSE {}]
    /\ \A c \in CustomerNames :
          /\ \A e \in dirs[c] : e.origin = c
          /\ c \notin existing => dirs[c] = {}
    /\ customers = <<>>
    /\ threshold_arg = DefaultThreshold
    /\ groups = <<>>
    /\ dirs0 = dirs
    /\ existing0 = existing
    /\ MergeLoopIdle
    /\ DedupIdle
    /\ KwIdle
    /\ NormIdle

\* main, lines 88-89: list the customer directories, in any order
ListCustomers ==
    /\ script = "merge" /\ pc = "list"
    /\ customers' \in Perms(existing)
    /\ nameIdx' = 1
    /\ groups' = <<>>
    /\ pc' = "group"
    /\ UNCHANGED <<script, dedupVars, kwVars, normVars, threshold_arg, existing, dirs, shown, confirm, mgIdx, group_sorted,
                   folderIdx, items, run, mutations, conflicts, dirs0, existing0,
                   cleanStart, prevMerged>>

\* fuzzy_group, lines 31-40: one name joins a group or starts one
FuzzyStep ==
    /\ script \in {"merge", "fuzzy"} /\ pc = "group" /\ nameIdx <= Len(customers)
    /\ groups' = FuzzyAdd(groups, customers[nameIdx], threshold_arg)
    /\ nameIdx' = nameIdx + 1
    /\ UNCHANGED <<script, pc, dedupVars, kwVars, normVars, threshold_arg, existing, dirs, customers, shown, confirm, mgIdx,
                   group_sorted, folderIdx, items, run, mutations, conflicts, dirs0,
                   existing0, cleanStart, prevMerged>>

\* main, lines 94-98: print the merge suggestions
ShowSuggestions ==
    /\ script = "merge" /\ pc = "group" /\ nameIdx > Len(customers)
    /\ shown' = [displayed |-> TRUE,
                 plan |-> {Sorted(groups[i]) :
                             i \in {j \in 1..Len(groups) : MergeActionable(groups[j])}}]
    /\ cleanStart' = NoCollision(groups, dirs, existing)
    /\ pc' = "confirm"
    /\ UNCHANGED <<script, dedupVars, kwVars, normVars, threshold_arg, existing, dirs, customers, nameIdx, groups, confirm,
                   mgIdx, group_sorted, folderIdx, items, run, mutations, conflicts, dirs0,
                   existing0, prevMerged>>

\* faulty variant: anything but 'n' confirms
MergeConfirmedLax(a) == Lower(Strip(a)) # <<"n">>

\* confirm == 'y' after strip and lower
MergeConfirmed(a) == Lower(Strip(a)) = <<"y">>

\* main, lines 100-105: the prompt
AskConfirm ==
    /\ script = "merge" /\ pc = "confirm"
    /\ \E a \in Answers :
          /\ confirm' = Lower(Strip(a))
          /\ pc' = IF MergeConfirmed(a) THEN "merge" ELSE "cancelled"
    /\ mgIdx' = 1
    /\ UNCHANGED <<script, dedupVars, kwVars, normVars, threshold_arg, existing, dirs, customers, nameIdx, groups, shown,
                   group_sorted, folderIdx, items, run, mutations, conflicts, dirs0,
                   existing0, cleanStart, prevMerged>>

\* faulty variant: the representative is taken to exist
RepExistsAlways(ex, rep) == TRUE

\* line 54: os.path.exists(rep_path)
RepExists(ex, rep) == rep \in ex

\* merge_directories, lines 49-57: the next group
MergeNextGroup ==
    /\ script \in {"merge", "mergedirs"} /\ pc = "merge" /\ mgIdx <= Len(groups)
    /\ IF MergeActionable(groups[mgIdx]) /\ RepExists(existing, Sorted(groups[mgIdx])[1])
       THEN /\ group_sorted' = Sorted(groups[mgIdx])
            /\ folderIdx' = 1
            /\ pc' = "folders"
            /\ UNCHANGED mgIdx
       ELSE /\ mgIdx' = mgIdx + 1
            /\ UNCHANGED <<group_sorted, folderIdx, pc>>
    /\ UNCHANGED <<script, dedupVars, kwVars, normVars, threshold_arg, existing, dirs, customers, nameIdx, groups, shown,
                   confirm, items, run, mutations, conflicts, dirs0, existing0, cleanStart,
                   prevMerged>>

\* merge_directories, lines 58-63 and 75-76: the next folder of the group
MergeNextFolder ==
    /\ script \in {"merge", "mergedirs"} /\ pc = "folders" /\ folderIdx <= Len(group_sorted)
    /\ LET folder == group_sorted[folderIdx]
       IN  IF folder # group_sorted[1] /\ folder \in existing
           THEN /\ items' = EntryNames(dirs[folder])
                /\ pc' = "items"
                /\ UNCHANGED folderIdx
           ELSE /\ folderIdx' = folderIdx + 1
                /\ UNCHANGED <<items, pc>>
    /\ UNCHANGED <<script, dedupVars, kwVars, normVars, threshold_arg, existing, dirs, customers, nameIdx, groups, shown,
                   confirm, mgIdx, group_sorted, run, mutations, conflicts, dirs0,
                   existing0, cleanStart, prevMerged>>

\* lines 66-67: the destination exists, the child is skipped
MoveSkip ==
    /\ script \in {"merge", "mergedirs"} /\ pc = "items"
    /\ \E item \in items :
          LET folder == group_sorted[folderIdx]
              rep == group_sorted[1]
          IN  /\ DstExists(dirs, rep, item)
              /\ items' = items \ {item}
              /\ conflicts' = conflicts \cup
                    {[folder |-> folder, rep |-> rep,
                      child |-> CHOOSE e \in dirs[folder] : e.name = item,
                      entry |-> CHOOSE e \in dirs[rep] : e.name = item]}
    /\ UNCHANGED <<script, pc, dedupVars, kwVars, normVars, threshold_arg, existing, dirs, customers, nameIdx, groups, shown,
                   confirm, mgIdx, group_sorted, folderIdx, run, mutations, dirs0,
                   existing0, cleanStart, prevMerged>>

\* lines 68-69: shutil.move succeeds
MoveOk ==
    /\ script \in {"merge", "mergedirs"} /\ pc = "items"
    /\ \E item \in items :
          LET folder == group_sorted[folderIdx]
              rep == group_sorted[1]
              child == CHOOSE e \in dirs[folder] : e.name = item
          IN  /\ ~DstExists(dirs, rep, item)
              /\ items' = items \ {item}
              /\ dirs' = [dirs EXCEPT ![folder] = @ \ {child},
                                     ![rep] = {e \in @ : e.name # item} \cup {child}]
    /\ mutations' = mutations + 1
    /\ UNCHANGED <<script, pc, dedupVars, kwVars, normVars, threshold_arg, existing, customers, nameIdx, groups, shown,
                   confirm, mgIdx, group_sorted, folderIdx, run, conflicts, dirs0,
                   existing0, cleanStart, prevMerged>>

\* line 69: shutil.move raises; nothing catches it and the run ends
MoveFail ==
    /\ script \in {"merge", "mergedirs"} /\ pc = "items"
    /\ \E item \in items : ~DstExists(dirs, group_sorted[1], item)
    /\ pc' = "crashed"
    /\ UNCHANGED <<script, dedupVars, mergeVars, kwVars, normVars>>

\* lines 70-74: the children are done, os.rmdir removes the folder if it is empty
RemoveFolder ==
    /\ script \in {"merge", "mergedirs"} /\ pc = "items" /\ items = {}
    /\ LET folder == group_sorted[folderIdx]
       IN  IF CanRmdir(dirs, folder)
           THEN /\ existing' = existing \ {folder}
                /\ mutations' = mutations + 1
           ELSE UNCHANGED <<existing, mutations>>
    /\ folderIdx' = folderIdx + 1
    /\ pc' = "folders"
    /\ UNCHANGED <<script, dedupVars, kwVars, normVars, threshold_arg, dirs, customers, nameIdx, groups, shown, confirm,
                   mgIdx, group_sorted, items, run, conflicts, dirs0, existing0,
                   cleanStart, prevMerged>>

\* line 58: the folders of the group are done
FoldersDone ==
    /\ script \in {"merge", "mergedirs"} /\ pc = "folders" /\ folderIdx > Len(group_sorted)
    /\ mgIdx' = mgIdx + 1
    /\ pc' = "merge"
    /\ UNCHANGED <<script, dedupVars, kwVars, normVars, threshold_arg, existing, dirs, customers, nameIdx, groups, shown,
                   confirm, group_sorted, folderIdx, items, run, mutations, conflicts,
                   dirs0, existing0, cleanStart, prevMerged>>

\* main, line 106: merge_directories has returned
MergeFinish ==
    /\ script = "merge" /\ pc = "merge" /\ mgIdx > Len(groups)
    /\ pc' = "done"
    /\ UNCHANGED <<script, dedupVars, mergeVars, kwVars, normVars>>

\* between two runs the user resolves a reported collision by hand: the
\* skipped child is taken out of its source folder
ResolveByHand ==
    /\ script = "merge" /\ pc = "done"
    /\ \E c \in conflicts :
          /\ dirs' = [dirs EXCEPT ![c.folder] = @ \ {c.child}]
          /\ conflicts' = conflicts \ {c}
    /\ UNCHANGED <<script, pc, dedupVars, kwVars, normVars, threshold_arg, existing, customers, nameIdx, groups, shown,
                   confirm, mgIdx, group_sorted, folderIdx, items, run, mutations, dirs0,
                   existing0, cleanStart, prevMerged>>

\* the script is started again on the folders the last run left
Rerun ==
    /\ script = "merge" /\ pc = "done" /\ run < MaxRuns
    /\ run' = run + 1
    /\ prevMerged' = (run >= 2 /\ cleanStart /\ FullyMerged(groups, existing))
    /\ pc' = "list"
    /\ customers' = <<>>
    /\ nameIdx' = 1
    /\ groups' = <<>>
    /\ shown' = [displayed |-> FALSE, plan |-> {}]
    /\ confirm' = <<>>
    /\ mgIdx' = 1
    /\ group_sorted' = <<>>
    /\ folderIdx' = 1
    /\ items' = {}
    /\ mutations' = 0
    /\ conflicts' = {}
    /\ dirs0' = dirs
    /\ existing0' = existing
    /\ cleanStart' = FALSE
    /\ UNCHANGED <<script, dedupVars, kwVars, normVars, threshold_arg, existing, dirs>>

NextMerge ==
    \/ ListCustomers
    \/ FuzzyStep
    \/ ShowSuggestions
    \/ AskConfirm
    \/ MergeNextGroup
    \/ MergeNextFolder
    \/ MoveSkip
    \/ MoveOk
    \/ MoveFail
    \/ RemoveFolder
    \/ FoldersDone
    \/ MergeFinish
    \/ ResolveByHand
    \/ Rerun

----------------------------------------------------------------------------
(* merge_directories called on any groups over any folders *)

\* the folder names of a plan: the customer names and one that sorts first
FolderNames == CustomerNames \cup {<<"a", "a">>}

\* two names in the order opposite to the one sorted gives them
GroupsOfTwo == {p \in FolderNames \X FolderNames : StrLess(p[2], p[1])}

\* the groups given to merge_directories: two groups with no name in common
MergePlans ==
    {p \in GroupsOfTwo \X GroupsOfTwo : {p[1][1], p[1][2]} \cap {p[2][1], p[2][2]} = {}}

InitMergeDirs ==
    /\ script = "mergedirs"
    /\ pc = "merge"
    /\ existing \in SUBSET FolderNames
    /\ \E shape \in [FolderNames -> EntryShapes({"x"}, BOOLEAN)] :
          dirs = [c \in FolderNames |->
                     IF c \in existing THEN FolderOf(shape[c], c) ELSE {}]
    /\ groups \in MergePlans
    /\ customers = <<>>
    /\ threshold_arg = DefaultThreshold
    /\ dirs0 = dirs
    /\ existing0 = existing
    /\ MergeLoopIdle
    /\ DedupIdle
    /\ KwIdle
    /\ NormIdle

\* line 49: the loop over groups is over, merge_directories returns
MergeReturn ==
    /\ script = "mergedirs" /\ pc = "merge" /\ mgIdx > Len(groups)
    /\ pc' = "returned"
    /\ UNCHANGED <<script, dedupVars, mergeVars, kwVars, normVars>>

NextMergeDirs ==
    \/ MergeNextGroup
    \/ MergeNextFolder
    \/ MoveSkip
    \/ MoveOk
    \/ MoveFail
    \/ RemoveFolder
    \/ FoldersDone
    \/ MergeReturn

SpecMergeDirs == InitMergeDirs /\ [][NextMergeDirs]_vars

----------------------------------------------------------------------------
(* fuzzy_group called on any list of names with any threshold *)

\* the names of a list: the three customer names, a name that has no character
\* in common with them, and the empty string
FuzzyNames == CustomerNames \cup {<<"z">>, <<>>}
Thresholds == {0, 50, DefaultThreshold, 100}
NameLists == UNION {[1..n -> FuzzyNames] : n \in 0..MaxNames}

InitFuzzy ==
    /\ script = "fuzzy"
    /\ pc = "group"
    /\ customers \in NameLists
    /\ threshold_arg \in Thresholds
    /\ existing = {}
    /\ dirs = <<>>
    /\ groups = <<>>
    /\ dirs0 = <<>>
    /\ existing0 = {}
    /\ MergeLoopIdle
    /\ DedupIdle
    /\ KwIdle
    /\ NormIdle

\* line 41: the loop over names is over, groups is returned
FuzzyReturn ==
    /\ script = "fuzzy" /\ pc = "group" /\ nameIdx > Len(customers)
    /\ pc' = "returned"
    /\ UNCHANGED <<script, dedupVars, mergeVars, kwVars, normVars>>

NextFuzzy == FuzzyStep \/ FuzzyReturn

SpecFuzzy == InitFuzzy /\ [][NextFuzzy]_vars

\* no two positions of a list hold the same string
NoTwoEqual(names) ==
    \A i, j \in 1..Len(names) : i # j => names[i] # names[j]

\* C13: fuzzy_group with threshold 100 on a list without two equal strings
\* returns singleton clusters only.
C13_Threshold100Singletons ==
    (script = "fuzzy" /\ pc = "returned" /\ threshold_arg = 100 /\ NoTwoEqual(customers)) =>
        /\ Len(groups) = Len(customers)
        /\ \A i \in 1..Len(groups) : Len(groups[i]) = 1

\* threshold 100 has kept three names apart, two of which differ in one
\* character only
C13_Witness ==
    /\ script = "fuzzy" /\ pc = "returned" /\ threshold_arg = 100
    /\ NoTwoEqual(customers)
    /\ Len(groups) = 3
    /\ groups[1] = << <<"a", "b", "c", "d">> >>
    /\ groups[2] = << <<"a", "b", "c", "d", "e">> >>

\* C14: fuzzy_group with threshold 0 returns no cluster for the empty list
\* and, for any other list, one cluster that holds every name of the list.
C14_Threshold0OneCluster ==
    (script = "fuzzy" /\ pc = "returned" /\ threshold_arg = 0) =>
        IF customers = <<>>
        THEN groups = <<>>
        ELSE /\ Len(groups) = 1
             /\ Len(groups[1]) = Len(customers)
             /\ \A k \in 1..Len(customers) :
                   \E j \in 1..Len(groups[1]) : groups[1][j] = customers[k]

\* threshold 0 has put names with no character in common, and the empty
\* string, into one cluster
C14_Witness ==
    /\ script = "fuzzy" /\ pc = "returned" /\ threshold_arg = 0
    /\ Len(customers) = 3
    /\ customers[1] = <<"z">> /\ customers[2] = <<>> /\ customers[3] = <<"a", "b", "c", "d">>
    /\ Len(groups) = 1

\* the groups whose first member scores at least the threshold against name
Candidates(gs, name) ==
    {i \in 1..Len(gs) : RatioAtLeast(name, gs[i][1], threshold_arg)}

\* C15: every step of fuzzy_group takes the next name of the list and appends
\* it to the earliest cluster whose first member scores at least the threshold
\* against it, or, when there is none, appends a new cluster of that name
\* alone after the others; members other than the first have no say.
C15_FirstMemberDecides ==
    [][(script = "fuzzy" /\ nameIdx' # nameIdx) =>
          LET name == customers[nameIdx]
              cand == Candidates(groups, name)
          IN  /\ nameIdx' = nameIdx + 1
              /\ IF cand = {}
                 THEN groups' = groups \o << <<name>> >>
                 ELSE \E i \in cand :
                        /\ \A j \in cand : i <= j
                        /\ groups' = [groups EXCEPT ![i] = @ \o <<name>>]]_vars

\* a returned result with a cluster of three, the second and third member of
\* which score below the threshold against each other
C15_Witness ==
    /\ script = "fuzzy" /\ pc = "returned" /\ threshold_arg = DefaultThreshold
    /\ Len(groups) = 1 /\ Len(groups[1]) = 3
    /\ ~RatioAtLeast(groups[1][2], groups[1][3], threshold_arg)

----------------------------------------------------------------------------
(* delete_files_with_keywords.py *)

KwFileNames == {<<"C", "a">>, <<"c", "b">>, <<"x">>}
KeywordLists == {<<>>, << <<"c">> >>, << <<"C">>, <<"y">> >>}

\* needle in hay
Contains(hay, needle) ==
    \E i \in 0..(Len(hay) - Len(needle)) : SubSeq(hay, i + 1, i + Len(needle)) = needle

\* find_files: the names that hold a keyword, case-insensitively
Matches(file_name, kws) ==
    \E k \in 1..Len(kws) : Contains(Lower(file_name), Lower(kws[k]))

\* confirm.lower() in ['y', 'yes']
KwConfirmed(a) == Lower(a) \in {<<"y">>, <<"y", "e", "s">>}

InitKw ==
    /\ script = "kwdelete"
    /\ pc = "load"
    /\ args \in [yes : BOOLEAN, dry_run : BOOLEAN]
    /\ tree \in SUBSET KwFileNames
    /\ tree0 = tree
    /\ keywords \in KeywordLists
    /\ files_to_delete = <<>>
    /\ listed = FALSE
    /\ answer = <<>>
    /\ unlinkIdx = 1
    /\ success_count = 0
    /\ fail_count = 0
    /\ DedupIdle
    /\ MergeIdle
    /\ NormIdle

\* main, lines 72-80: no keyword or no match ends the run; os.walk returns
\* the matches in any order
KwFind ==
    /\ script = "kwdelete" /\ pc = "load"
    /\ IF keywords = <<>>
       THEN /\ pc' = "exit"
            /\ UNCHANGED files_to_delete
       ELSE /\ files_to_delete' \in Perms({n \in tree : Matches(n, keywords)})
            /\ pc' = IF files_to_delete' = <<>> THEN "exit" ELSE "show"
    /\ UNCHANGED <<script, dedupVars, mergeVars, normVars, args, tree, tree0, keywords, listed, answer,
                   unlinkIdx, success_count, fail_count>>

\* main, lines 82-88: print the files, stop here on a dry run
KwShow ==
    /\ script = "kwdelete" /\ pc = "show"
    /\ listed' = TRUE
    /\ pc' = IF args.dry_run THEN "exit" ELSE "gate"
    /\ UNCHANGED <<script, dedupVars, mergeVars, normVars, args, tree, tree0, keywords, files_to_delete,
                   answer, unlinkIdx, success_count, fail_count>>

\* main, lines 90-94: --yes skips the prompt, otherwise the answer decides
KwGate ==
    /\ script = "kwdelete" /\ pc = "gate"
    /\ IF args.yes
       THEN /\ pc' = "unlink"
            /\ UNCHANGED answer
       ELSE \E a \in Answers :
               /\ answer' = a
               /\ pc' = IF KwConfirmed(a) THEN "unlink" ELSE "exit"
    /\ UNCHANGED <<script, dedupVars, mergeVars, normVars, args, tree, tree0, keywords, files_to_delete,
                   listed, unlinkIdx, success_count, fail_count>>

\* main, lines 103-108: file.unlink() succeeds
UnlinkOk ==
    /\ script = "kwdelete" /\ pc = "unlink" /\ unlinkIdx <= Len(files_to_delete)
    /\ tree' = tree \ {files_to_delete[unlinkIdx]}
    /\ success_count' = success_count + 1
    /\ unlinkIdx' = unlinkIdx + 1
    /\ UNCHANGED <<script, pc, dedupVars, mergeVars, normVars, args, tree0, keywords, files_to_delete,
                   listed, answer, fail_count>>

\* main, lines 109-112: file.unlink() raises
UnlinkFail ==
    /\ script = "kwdelete" /\ pc = "unlink" /\ unlinkIdx <= Len(files_to_delete)
    /\ fail_count' = fail_count + 1
    /\ unlinkIdx' = unlinkIdx + 1
    /\ UNCHANGED <<script, pc, dedupVars, mergeVars, normVars, args, tree, tree0, keywords, files_to_delete,
                   listed, answer, success_count>>

\* main, lines 114-131: the summary
KwFinish ==
    /\ script = "kwdelete" /\ pc = "unlink" /\ unlinkIdx > Len(files_to_delete)
    /\ pc' = "done"
    /\ UNCHANGED <<script, dedupVars, mergeVars, kwVars, normVars>>

NextKw ==
    \/ KwFind
    \/ KwShow
    \/ KwGate
    \/ UnlinkOk
    \/ UnlinkFail
    \/ KwFinish

----------------------------------------------------------------------------
(* duplicate_scanner.py *)

IsDigit(c) == c \in {"1", "2"}

AllSpace(t, from, to) == \A i \in from..to : IsSpace(t[i])

AllDigit(t, from, to) == \A i \in from..to : IsDigit(t[i])

\* Path(filename).stem of a name without separators: the name up to its last
\* dot, unless that dot is the first or the last character
LastDot(s) ==
    IF \E i \in 1..Len(s) : s[i] = "."
    THEN CHOOSE i \in 1..Len(s) : s[i] = "." /\ \A j \in (i + 1)..Len(s) : s[j] # "."
    ELSE 0

Stem(s) ==
    IF s = <<>> \/ s = <<".">> THEN <<>>
    ELSE IF 1 < LastDot(s) /\ LastDot(s) < Len(s) THEN SubSeq(s, 1, LastDot(s) - 1)
    ELSE s

\* t matches \s+copy\s*\d*$ from its first character, ignoring case
MatchCopy(t) ==
    \E a \in 1..Len(t) :
        /\ AllSpace(t, 1, a)
        /\ Len(t) >= a + 4
        /\ Lower(SubSeq(t, a + 1, a + 4)) = <<"c", "o", "p", "y">>
        /\ \E b \in (a + 4)..Len(t) :
              AllSpace(t, a + 5, b) /\ AllDigit(t, b + 1, Len(t))

\* t matches \s+\(\d+\)$ from its first character
MatchParen(t) ==
    \E a \in 1..Len(t) :
        /\ AllSpace(t, 1, a)
        /\ Len(t) >= a + 3
        /\ t[a + 1] = "("
        /\ t[Len(t)] = ")"
        /\ AllDigit(t, a + 2, Len(t) - 1)

\* re.sub(pattern, '', s) for a pattern anchored at the end: the leftmost
\* match, which runs to the end of s, is cut off
SubCopy(s) ==
    IF \E i \in 1..Len(s) : MatchCopy(SubSeq(s, i, Len(s)))
    THEN SubSeq(s, 1, (CHOOSE i \in 1..Len(s) :
                          /\ MatchCopy(SubSeq(s, i, Len(s)))
                          /\ \A j \in 1..(i - 1) : ~MatchCopy(SubSeq(s, j, Len(s)))) - 1)
    ELSE s

SubParen(s) ==
    IF \E i \in 1..Len(s) : MatchParen(SubSeq(s, i, Len(s)))
    THEN SubSeq(s, 1, (CHOOSE i \in 1..Len(s) :
                          /\ MatchParen(SubSeq(s, i, Len(s)))
                          /\ \A j \in 1..(i - 1) : ~MatchParen(SubSeq(s, j, Len(s)))) - 1)
    ELSE s

\* one pass over patterns_to_remove, in order, then strip
normalize_filename(name) == Strip(SubParen(SubCopy(Stem(name))))

\* the pieces file names are built from
Tokens == {<<"a">>, <<" ">>, <<"c", "o", "p", "y">>, <<"C", "o", "p", "y">>,
           <<"(", "1", ")">>, <<"2">>, <<".">>, <<".", "p">>}

RECURSIVE Concat(_)
Concat(ts) == IF ts = <<>> THEN <<>> ELSE Head(ts) \o Concat(Tail(ts))

FileNameInputs == {Concat(ts) : ts \in UNION {[1..n -> Tokens] : n \in 0..MaxTokens}}

InitNorm ==
    /\ script = "scan"
    /\ pc = "name"
    /\ filename \in FileNameInputs
    /\ normalized = <<>>
    /\ renormalized = <<>>
    /\ group_files = <<>>
    /\ hashes = <<>>
    /\ verdict = ""
    /\ DedupIdle
    /\ MergeIdle
    /\ KwIdle

\* line 89: the name of a file is normalised
Normalize ==
    /\ script = "scan" /\ pc = "name"
    /\ normalized' = normalize_filename(filename)
    /\ pc' = "once"
    /\ UNCHANGED <<script, dedupVars, mergeVars, kwVars, filename, renormalized,
                   group_files, hashes, verdict>>

\* the result is normalised again
NormalizeAgain ==
    /\ script = "scan" /\ pc = "once"
    /\ renormalized' = normalize_filename(normalized)
    /\ pc' = "twice"
    /\ UNCHANGED <<script, dedupVars, mergeVars, kwVars, filename, normalized,
                   group_files, hashes, verdict>>

NextNorm == Normalize \/ NormalizeAgain

SpecNorm == InitNorm /\ [][NextNorm]_vars

\* C7: normalising a normalised name changes nothing.
C7_Idempotent ==
    (script = "scan" /\ pc = "twice") => renormalized = normalized

----------------------------------------------------------------------------
(* duplicate_scanner.py: the content check of a group of similar names *)

\* a file of a group: its content and whether it can be read
GroupFiles == [readable : BOOLEAN, content : Contents]

\* duplicate_scanner.calculate_file_hash, lines 28-38: None when open or read
\* raises OSError
ScannerFileHash(file_info) ==
    IF file_info.readable THEN Md5(file_info.content) ELSE None

\* set(hashes)
SetOf(seq) == {seq[i] : i \in 1..Len(seq)}

\* line 140: len(set(hashes)) == 1
HashesAgree(hs) == Cardinality(SetOf(hs)) = 1

\* lines 102-107: a group has two or more files
InitCheck ==
    /\ script = "scancheck"
    /\ pc = "hash"
    /\ group_files \in UNION {[1..n -> GroupFiles] : n \in 2..NumFiles}
    /\ hashes = <<>>
    /\ verdict = ""
    /\ filename = <<>>
    /\ normalized = <<>>
    /\ renormalized = <<>>
    /\ DedupIdle
    /\ MergeIdle
    /\ KwIdle

\* lines 136-138: the hash of the next file is appended, None included
HashMember ==
    /\ script = "scancheck" /\ pc = "hash" /\ Len(hashes) < Len(group_files)
    /\ hashes' = Append(hashes, ScannerFileHash(group_files[Len(hashes) + 1]))
    /\ UNCHANGED <<script, pc, dedupVars, mergeVars, kwVars, filename, normalized,
                   renormalized, group_files, verdict>>

\* lines 140-143: the verdict on the group
PrintVerdict ==
    /\ script = "scancheck" /\ pc = "hash" /\ Len(hashes) = Len(group_files)
    /\ verdict' = IF HashesAgree(hashes) THEN "IDENTICAL" ELSE "DIFFERENT"
    /\ pc' = "checked"
    /\ UNCHANGED <<script, dedupVars, mergeVars, kwVars, filename, normalized,
                   renormalized, group_files, hashes>>

NextCheck == HashMember \/ PrintVerdict

SpecCheck == InitCheck /\ [][NextCheck]_vars

\* C19: a group is reported as having identical content only when every file
\* of it could be hashed and all the digests are the same; a file that could
\* not be hashed is in no group reported identical.
C19_IdenticalOnlyIfAllHashed ==
    (script = "scancheck" /\ verdict = "IDENTICAL") =>
        /\ \A m \in 1..Len(group_files) : group_files[m].readable
        /\ \A m \in 1..Len(hashes) : hashes[m] # None
        /\ \A m, n \in 1..Len(group_files) :
              Md5(group_files[m].content) = Md5(group_files[n].content)

----------------------------------------------------------------------------

Init == InitDedup \/ InitMerge \/ InitKw

Next == NextDedup \/ NextMerge \/ NextKw

Spec == Init /\ [][Next]_vars

----------------------------------------------------------------------------
(* Properties of deduplicate_folder *)

\* the files of the i-th hash group
Members(i) == {file_hashes[i].files[j][1] : j \in 1..Len(file_hashes[i].files)}

\* the i-th hash group has had its keeper chosen
Resolved(i) == i < grpIdx \/ (i = grpIdx /\ pc = "delete")

\* an entry the scan hashes: a regular file that is not hidden
Eligible(f) == files[f].kind = "file" /\ ~StartsWithDot(files[f].name)

GroupsOf(f) == {i \in 1..Len(file_hashes) : f \in Members(i)}

\* C1: in every hash group of two or more files the kept file is a member
\* whose modification time, as read by the scan, is the greatest of the
\* group, and no removal is ever attempted on a kept file.
C1_KeepNewest ==
    script = "dedup" =>
        /\ \A i \in 1..Len(file_hashes) :
              (Resolved(i) /\ Len(file_hashes[i].files) > 1) =>
                 \E k \in kept :
                    /\ kept \cap Members(i) = {k}
                    /\ \A j \in 1..Len(file_hashes[i].files) :
                          file_hashes[i].files[j][2] <= files[k].mtime
        /\ kept \cap attempted = {}
        /\ kept \subseteq present

\* a finished run that kept a file scanned after an older duplicate of it,
\* and removed the older one
C1_Witness ==
    /\ script = "dedup" /\ pc = "done"
    /\ \E k \in kept : \E f \in attempted :
          /\ f < k
          /\ f \notin present
          /\ files[f].content = files[k].content
          /\ files[f].mtime < files[k].mtime

\* C5 as stated: once the scan is over, any two non-hidden regular files with
\* identical content are together in exactly one group.
C5_Original ==
    (script = "dedup" /\ pc \notin {"start", "scan"} /\ present # {}) =>
        \A f, g \in FileIds :
            (Eligible(f) /\ Eligible(g) /\ files[f].content = files[g].content) =>
                /\ GroupsOf(f) = GroupsOf(g)
                /\ Cardinality(GroupsOf(f)) = 1

\* C5, amended: once the scan is over, any two non-hidden regular files with
\* identical content, both of which could be read, are together in exactly
\* one group.
C5_SameContentSameGroup ==
    (script = "dedup" /\ pc \notin {"start", "scan"} /\ present # {}) =>
        \A f, g \in FileIds :
            (/\ Eligible(f) /\ Eligible(g)
             /\ files[f].readable /\ files[g].readable
             /\ files[f].content = files[g].content) =>
                /\ GroupsOf(f) = GroupsOf(g)
                /\ Cardinality(GroupsOf(f)) = 1

\* the scan is over and two readable files with the same content, scanned
\* with a file of another content between them, share a group
C5_Witness ==
    /\ script = "dedup" /\ pc = "groups"
    /\ \E f, g, h \in FileIds :
          /\ f < h /\ h < g
          /\ Eligible(f) /\ Eligible(g) /\ Eligible(h)
          /\ files[f].readable /\ files[g].readable /\ files[h].readable
          /\ files[f].content = files[g].content
          /\ files[h].content # files[f].content
          /\ GroupsOf(f) = GroupsOf(g)
          /\ GroupsOf(f) # {}

\* C6: no hash group ever holds two files of distinct content, and every
\* file a removal is attempted on has the content of a kept file other than
\* itself.
C6_DistinctContentApart ==
    script = "dedup" =>
        /\ \A i \in 1..Len(file_hashes) :
              \A f, g \in Members(i) : files[f].content = files[g].content
        /\ \A f \in attempted :
              \E k \in kept : k # f /\ files[k].content = files[f].content

\* a finished run with two files that differ in their last byte only, one of
\* which had a duplicate removed
C6_Witness ==
    /\ script = "dedup" /\ pc = "done"
    /\ \E f, g \in present : \E d \in attempted :
          /\ files[f].content = <<65, 66>>
          /\ files[g].content = <<65>>
          /\ Eligible(f) /\ Eligible(g)
          /\ files[f].readable /\ files[g].readable
          /\ d \notin present
          /\ files[d].content = files[f].content

----------------------------------------------------------------------------
(* Properties of merge_directories *)

\* the alphabetically first name of a group
AlphaFirst(group) ==
    CHOOSE r \in {group[i] : i \in 1..Len(group)} :
        \A i \in 1..Len(group) : group[i] = r \/ StrLess(r, group[i])

C4_FullMerge ==
    (script = "merge" /\ pc = "done" /\ cleanStart) =>
        \A i \in 1..Len(groups) :
            Len(groups[i]) >= 2 =>
                \A k \in 1..Len(groups[i]) :
                    groups[i][k] # AlphaFirst(groups[i]) =>
                        /\ groups[i][k] \notin existing
                        /\ dirs[groups[i][k]] = {}
                        /\ dirs0[groups[i][k]] \subseteq dirs[AlphaFirst(groups[i])]

\* a run has merged a cluster of three folders, each source with a child
C4_Witness ==
    /\ script = "merge" /\ pc = "done" /\ cleanStart /\ run = 1
    /\ \E i \in 1..Len(groups) :
          /\ Len(groups[i]) = 3
          /\ groups[i][1] # AlphaFirst(groups[i])
          /\ Cardinality(dirs[AlphaFirst(groups[i])]) = 2
          /\ dirs0[AlphaFirst(groups[i])] = {}

\* C8: a re-run whose plan has no name collision left ends with every
\* cluster of two or more folders fully merged, and the run after it moves
\* and removes nothing.
C8_RerunConverges ==
    script = "merge" =>
        /\ (pc = "done" /\ run >= 2 /\ cleanStart) => FullyMerged(groups, existing)
        /\ prevMerged => mutations = 0

----------------------------------------------------------------------------
(* Properties of the runs *)

\* C2 as stated: in the merge script and in the hash-based dedup script no
\* file or folder is touched before the plan was displayed and an affirmative
\* answer given.
C2_Original ==
    /\ script = "dedup" =>
          (attempted # {} => (shown.displayed /\ confirm = <<"y">>))
    /\ script = "merge" =>
          (mutations > 0 => (shown.displayed /\ confirm = <<"y">>))

\* C2, amended: in the merge script and in the keyword deletion script no
\* file or folder is touched before the plan was displayed and an affirmative
\* answer given (or, for the keyword deletion, --yes passed), and any other
\* answer leaves the file system as it was; deduplicate_folder has no such
\* gate.
C2_ConfirmationGate ==
    /\ script = "merge" =>
          /\ (mutations > 0 \/ (pc # "done" /\ (dirs # dirs0 \/ existing # existing0)))
                => (shown.displayed /\ confirm = <<"y">>)
          /\ pc = "cancelled" => (dirs = dirs0 /\ existing = existing0 /\ mutations = 0)
    /\ script = "kwdelete" =>
          /\ (tree # tree0 \/ success_count + fail_count > 0)
                => (listed /\ ~args.dry_run /\ (args.yes \/ Lower(answer) \in {<<"y">>, <<"y", "e", "s">>}))
          /\ (pc = "exit") => tree = tree0

\* a merge run has displayed a non-empty plan and moved a child
C2_Witness ==
    /\ script = "merge" /\ mutations > 0 /\ dirs # dirs0
    /\ shown.displayed /\ shown.plan # {}

\* C9: no file is removed, no child moved and no folder removed before the
\* scan has visited every entry and the groups are complete.
C9_GroupsBeforeMutation ==
    /\ (script = "dedup" /\ (attempted # {} \/ present \notin {FileIds, {}})) =>
          /\ scanIdx > NumFiles
          /\ pc \in {"groups", "delete", "done"}
          /\ \A f \in FileIds :
                (Eligible(f) /\ files[f].readable) => Cardinality(GroupsOf(f)) = 1
    /\ (script = "merge" /\ (mutations > 0 \/ (pc # "done" /\ (dirs # dirs0 \/ existing # existing0)))) =>
          /\ nameIdx > Len(customers)
          /\ groups = fuzzy_group(customers, DefaultThreshold)
          /\ \A c \in existing0 : \E i \in 1..Len(groups) : \E k \in 1..Len(groups[i]) :
                groups[i][k] = c

\* a duplicate has been removed while a later hash group is still to be resolved
C9_Witness ==
    /\ script = "dedup" /\ pc = "delete"
    /\ total_removed > 0
    /\ grpIdx < Len(file_hashes)

\* C10: no removal is attempted on a file that is alone in its hash group or
\* whose content no other scanned file has, and a folder that is alone in its
\* cluster keeps its children and is not removed.
C10_SingletonsUntouched ==
    /\ script = "dedup" =>
          /\ \A i \in 1..Len(file_hashes) :
                Len(file_hashes[i].files) = 1 => Members(i) \cap attempted = {}
          /\ \A f \in attempted :
                \E g \in FileIds :
                    /\ g # f /\ Eligible(g) /\ files[g].readable
                    /\ files[g].content = files[f].content
    /\ (script = "merge" /\ pc # "group") =>
          \A i \in 1..Len(groups) :
              Len(groups[i]) = 1 =>
                  /\ dirs[groups[i][1]] = dirs0[groups[i][1]]
                  /\ groups[i][1] \in existing

\* a finished merge that moved children left a folder with a child alone in
\* its cluster
C10_Witness ==
    /\ script = "merge" /\ pc = "done" /\ mutations > 0
    /\ \E i \in 1..Len(groups) : Len(groups[i]) = 1 /\ dirs[groups[i][1]] # {}

----------------------------------------------------------------------------
(* Failures in deduplicate_folder *)

\* a folder all files of which were modified at the same time
InitDedupLive ==
    /\ InitDedup
    /\ \A f \in FileIds : files[f].mtime = 1

\* a run of the dedup script goes on as long as it has a step to take
SpecDedupLive == InitDedupLive /\ [][NextDedup]_vars /\ WF_vars(NextDedup)

\* the files of the i-th hash group that are planned for deletion
Planned(i) ==
    IF IsActionable(file_hashes[i].files) THEN Members(i) \ kept ELSE {}

\* the part of to_delete the loop of line 79 has gone through
Passed == {to_delete[j] : j \in 1..(delIdx - 1)}

\* C11: a removal that raised does not end the batch: once a group is done
\* every file planned for deletion in it has had its removal attempted, in a
\* group under way the loop has attempted every file it went past, and a run
\* with a failed removal goes on to print its final summary.
C11_FailureDoesNotAbort ==
    /\ [](script = "dedup" =>
            /\ \A i \in 1..Len(file_hashes) :
                  (i < grpIdx \/ pc = "done") => Planned(i) \subseteq attempted
            /\ pc = "delete" => Passed \subseteq attempted
            /\ failed \subseteq attempted)
    /\ [](script = "dedup" /\ failed # {} => <>(pc = "done" /\ report # <<>>))

\* a finished run in which a removal failed in one group and a file of a later
\* group was removed after it
C11_Witness ==
    /\ script = "dedup" /\ pc = "done" /\ report # <<>>
    /\ \E i, j \in 1..Len(file_hashes) : \E f \in Planned(i) : \E h \in Planned(j) :
          /\ i < j
          /\ f \in failed /\ f \in present
          /\ h \in attempted \ failed /\ h \notin present

\* the files os.remove has removed
Removed == FileIds \ present

\* the sum of the sizes of a set of files
RECURSIVE SizeOfAll(_)
SizeOfAll(S) ==
    IF S = {} THEN 0
    ELSE LET f == CHOOSE x \in S : TRUE
         IN  Len(files[f].content) + SizeOfAll(S \ {f})

\* C12: the final report holds the number of removals that succeeded, which
\* is the number of files removed, the number of removals that failed, and
\* the bytes reclaimed, which are the sizes of the removed files added up.
C12_FinalReport ==
    (script = "dedup" /\ pc = "done" /\ report # <<>>) =>
        /\ report.removed = Cardinality(Removed)
        /\ report.freed = format_size(SizeOfAll(Removed))
        /\ "failed" \in DOMAIN report
        /\ report.failed = Cardinality(failed)

----------------------------------------------------------------------------
(* Failures in merge_directories *)

\* C16: no failure of a move or of the processing of a source folder ends
\* the run: merge_directories goes on with what is left to process.
C16_FailureRecoverable ==
    script = "merge" => pc # "crashed"

\* the representative of the i-th group: the first of its sorted names
RepOf(i) == Sorted(groups[i])[1]

\* the i-th group has been gone through: every child its source folders had
\* is in the representative or was skipped, and an emptied folder is gone
Processed(i) ==
    (MergeActionable(groups[i]) /\ RepOf(i) \in existing0) =>
        \A k \in 2..Len(groups[i]) :
            LET src == Sorted(groups[i])[k]
            IN  /\ \A e \in dirs0[src] :
                      e \in dirs[RepOf(i)] \/ \E c \in conflicts : c.child = e
                /\ dirs[src] = {} => src \notin existing

\* C17: when the representative of a group does not exist, no folder of the
\* group loses or gains an entry and none is removed, and every later group
\* has been processed when merge_directories returns.
C17_MissingRepSkipped ==
    script = "mergedirs" =>
        \A i \in 1..Len(groups) :
            (MergeActionable(groups[i]) /\ RepOf(i) \notin existing0) =>
                /\ \A k \in 1..Len(groups[i]) :
                      /\ dirs[groups[i][k]] = dirs0[groups[i][k]]
                      /\ groups[i][k] \in existing <=> groups[i][k] \in existing0
                /\ pc = "returned" => \A j \in (i + 1)..Len(groups) : Processed(j)

\* merge_directories has returned: the first group, whose source folder has a
\* child, was skipped for its missing representative, and the second group
\* was merged
C17_Witness ==
    /\ script = "mergedirs" /\ pc = "returned"
    /\ RepOf(1) \notin existing0
    /\ dirs[Sorted(groups[1])[2]] # {}
    /\ RepOf(2) \in existing0
    /\ dirs0[Sorted(groups[2])[2]] # {}
    /\ Sorted(groups[2])[2] \notin existing

----------------------------------------------------------------------------
(* Unreadable files *)

\* a regular, non-hidden file whose content cannot be read
Unreadable(f) == Eligible(f) /\ ~files[f].readable

\* C18: a file whose content cannot be read is in no hash group, no removal
\* is attempted on it and it stays on disk; once the scan is over every file
\* that could be read is in exactly one group, with the readable files of
\* its content, and at the end of the run every such group of two or more
\* has had all its files but the kept one attempted.
C18_UnreadableSkipped ==
    (script = "dedup" /\ present # {}) =>
        /\ \A f \in FileIds :
              Unreadable(f) => (GroupsOf(f) = {} /\ f \notin attempted /\ f \in present)
        /\ pc \notin {"start", "scan"} =>
              \A g \in FileIds :
                  (Eligible(g) /\ files[g].readable) =>
                      \E i \in 1..Len(file_hashes) :
                          Members(i) = {h \in FileIds :
                                          /\ Eligible(h) /\ files[h].readable
                                          /\ files[h].content = files[g].content}
        /\ pc = "done" =>
              \A i \in 1..Len(file_hashes) :
                  Len(file_hashes[i].files) > 1 =>
                      Cardinality(Members(i) \ attempted) = 1

\* a finished run that scanned an unreadable file first and then removed a
\* duplicate among the files after it
C18_Witness ==
    /\ script = "dedup" /\ pc = "done" /\ report # <<>>
    /\ Unreadable(1)
    /\ 1 \in present
    /\ \E g, h \in FileIds :
          /\ 1 < g /\ g < h
          /\ g \in present
          /\ h \in attempted /\ h \notin present
          /\ files[g].content = files[1].content

----------------------------------------------------------------------------
(* Nothing is lost by merge_directories *)

\* the folder the entries of folder f go to: the representative of the group
\* of two or more that names f, f itself when there is none
TargetOf(f) ==
    IF \E i \in 1..Len(groups) :
          MergeActionable(groups[i]) /\ \E k \in 1..Len(groups[i]) : groups[i][k] = f
    THEN RepOf(CHOOSE i \in 1..Len(groups) :
                  MergeActionable(groups[i]) /\ \E k \in 1..Len(groups[i]) : groups[i][k] = f)
    ELSE f

\* C20: every entry a folder had when merge_directories was called is in
\* exactly one folder, which exists and is the folder it was in or the
\* representative of its group; what the representative had is still in it.
C20_NothingLost ==
    script = "mergedirs" =>
        \A f \in FolderNames : \A e \in dirs0[f] :
            /\ Cardinality({g \in FolderNames : e \in dirs[g]}) = 1
            /\ e \in dirs[f] \/ e \in dirs[TargetOf(f)]
            /\ \A g \in FolderNames : e \in dirs[g] => g \in existing
            /\ f = TargetOf(f) => e \in dirs[f]

----------------------------------------------------------------------------
(* The result of fuzzy_group *)

\* the number of positions of seq that hold x
RECURSIVE Count(_, _)
Count(x, seq) ==
    IF seq = <<>> THEN 0
    ELSE (IF Head(seq) = x THEN 1 ELSE 0) + Count(x, Tail(seq))

\* the number of members of the groups gs that are x
RECURSIVE CountInAll(_, _)
CountInAll(x, gs) ==
    IF gs = <<>> THEN 0
    ELSE Count(x, Head(gs)) + CountInAll(x, Tail(gs))

\* sub can be had from seq by leaving positions out
RECURSIVE IsSubseq(_, _)
IsSubseq(sub, seq) ==
    IF sub = <<>> THEN TRUE
    ELSE IF seq = <<>> THEN FALSE
    ELSE IF Head(sub) = Head(seq) THEN IsSubseq(Tail(sub), Tail(seq))
    ELSE IsSubseq(sub, Tail(seq))

\* the names the loop of line 32 has gone through
Taken == SubSeq(customers, 1, nameIdx - 1)

\* C21: the groups are a partition of the names gone through: every name is
\* a member of the groups as many times as it is in the list, so each
\* position of the list is in exactly one group, no group is empty, the members of a group are in the order of the list, and the first
\* member of a group scores below the threshold against the first member of
\* every group before it.
C21_Partition ==
    script = "fuzzy" =>
        /\ \A k \in 1..Len(Taken) :
              CountInAll(Taken[k], groups) = Count(Taken[k], Taken)
        /\ \A i \in 1..Len(groups) :
              /\ groups[i] # <<>>
              /\ \A m \in 1..Len(groups[i]) : Count(groups[i][m], Taken) > 0
              /\ IsSubseq(groups[i], Taken)
              /\ \A j \in 1..(i - 1) :
                    ~RatioAtLeast(groups[i][1], groups[j][1], threshold_arg)

\* a returned result of two groups, the first of which holds the first and
\* the last name of the list, twice the same string, and not the second name
C21_Witness ==
    /\ script = "fuzzy" /\ pc = "returned" /\ threshold_arg = DefaultThreshold
    /\ Len(customers) = 3
    /\ customers[1] = customers[3]
    /\ Len(groups) = 2
    /\ groups[1] = <<customers[1], customers[3]>>
    /\ groups[2] = <<customers[2]>>
    /\ RatioAtLeast(customers[2], customers[3], 50)

====
